---- MODULE Spec2Model ----
(***************************************************************************)
(* Model of the clip-preparation server (src/server/routes.ts): the URL    *)
(* validator, the process runner, the metadata cache and the three HTTP    *)
(* handlers, and of the editor component of the client.  Text is modelled  *)
(* as a sequence of one-character strings so that parsing, splitting and   *)
(* lower-casing are computed, not assumed.                                 *)
(***************************************************************************)
EXTENDS Integers, Sequences, FiniteSets, TLC

VARIABLES
    urlArg,      \* validator: the text handed to validateYouTubeUrl
    urlRes,      \* validator: "none" before the call, then "true" / "false"
    proc,        \* runner: the spawned process (phase, launch error, exit code)
    procOut,     \* runner: stdout accumulated so far
    procErr,     \* runner: stderr accumulated so far
    settled,     \* runner: state of the promise returned by runCommand
    cropReq,     \* crop: body of the /api/process-crop request being built
    cropCmd,     \* crop: transcoder arguments built for cropReq
    timeArg,     \* codec: the value handed to parseTimestamp
    timeRes,     \* codec: what the call produced, [kind |-> "none"] before it
    now,         \* server: Date.now() in milliseconds
    resolved,    \* server: URLs for which /api/video-info has answered 200
    videoCache,  \* server: the Map videoCache, url -> entry (or Absent)
    inflight,    \* server: handlers suspended on `await runCommand(...)` and
                 \*         responses whose res.download callback is pending
    files,       \* server: names of the files present in DOWNLOADS_DIR
    extracted,   \* server: files for which /api/fetch-segment has answered 200
    lastOp,      \* server: the last request handled and its response
    nreq,        \* server: number of requests received so far
    editor       \* client: the state of the VideoEditor component

vars == <<urlArg, urlRes, proc, procOut, procErr, settled, cropReq, cropCmd,
          timeArg, timeRes,
          now, resolved, videoCache, inflight, files, extracted, lastOp, nreq,
          editor>>

urlVars    == <<urlArg, urlRes>>
runVars    == <<proc, procOut, procErr, settled>>
cropVars   == <<cropReq, cropCmd>>
timeVars   == <<timeArg, timeRes>>
serverVars == <<now, resolved, videoCache, inflight, files, extracted, lastOp, nreq>>
editorVars == <<editor>>

(***************************************************************************)
(* Characters and text                                                     *)
(***************************************************************************)
UpperChars == <<"A","B","C","D","E","F","G","H","I","J","K","L","M",
                "N","O","P","Q","R","S","T","U","V","W","X","Y","Z">>
LowerChars == <<"a","b","c","d","e","f","g","h","i","j","k","l","m",
                "n","o","p","q","r","s","t","u","v","w","x","y","z">>
DigitChars == <<"0","1","2","3","4","5","6","7","8","9">>

Range(s) == {s[i] : i \in 1..Len(s)}

IsDigit(c) == c \in Range(DigitChars)
IsAlpha(c) == c \in Range(UpperChars) \cup Range(LowerChars)
DigitVal(c) == (CHOOSE i \in 1..10 : DigitChars[i] = c) - 1

\* String.prototype.toLowerCase: the lower-case letter of each upper-case
\* letter, and the conversion of one character
LowerOf == [c \in Range(UpperChars) |-> LowerChars[CHOOSE i \in 1..26 : UpperChars[i] = c]]
toLowerChar(c) == IF c \in DOMAIN LowerOf THEN LowerOf[c] ELSE c

\* String.prototype.toLowerCase
toLowerCase(s) == [i \in 1..Len(s) |-> toLowerChar(s[i])]

\* index of the first character of s that is in cs, Len(s)+1 when there is none
FirstIdx(s, cs) ==
    IF \E i \in 1..Len(s) : s[i] \in cs
    THEN CHOOSE i \in 1..Len(s) : s[i] \in cs /\ \A j \in 1..(i-1) : s[j] \notin cs
    ELSE Len(s) + 1

\* index of the last character of s that is in cs, 0 when there is none
LastIdx(s, cs) ==
    IF \E i \in 1..Len(s) : s[i] \in cs
    THEN CHOOSE i \in 1..Len(s) : s[i] \in cs /\ \A j \in (i+1)..Len(s) : s[j] \notin cs
    ELSE 0

\* s without its first n characters
Drop(s, n) == SubSeq(s, n + 1, Len(s))

IsSpace(c) == c \in {" ", "\n", "\t", "\r"}

\* String.prototype.trim
trim(s) ==
    LET keep == {i \in 1..Len(s) : ~IsSpace(s[i])}
    IN  IF keep = {} THEN <<>>
        ELSE SubSeq(s, CHOOSE i \in keep : \A j \in keep : i <= j,
                       CHOOSE i \in keep : \A j \in keep : i >= j)

\* value of a string of decimal digits
RECURSIVE DigitsVal(_)
DigitsVal(s) ==
    IF s = <<>> THEN 0
    ELSE DigitsVal(SubSeq(s, 1, Len(s) - 1)) * 10 + DigitVal(s[Len(s)])

(***************************************************************************)
(* new URL(text): scheme, authority, host and port of the WHATWG parser,   *)
(* for text over letters, digits and  : / ? # @ . - = +  with no base URL. *)
(* The file: scheme, hosts whose last label is a number and hosts with a   *)
(* label xn--<p> where <p> is the Punycode of a valid internationalised    *)
(* label are outside the inputs of this model.                             *)
(***************************************************************************)
SpecialSchemes == { <<"h","t","t","p">>, <<"h","t","t","p","s">>,
                    <<"f","t","p">>, <<"w","s">>, <<"w","s","s">> }

UrlFailure == [ok |-> FALSE, hostname |-> <<>>]

\* number of leading "/" of s
LeadingSlashes(s) == FirstIdx(s, Range(s) \ {"/"}) - 1

\* some label of the lower-cased host starts with the ACE prefix xn--
HasAceLabel(host) ==
    \E i \in 1..(Len(host) - 3) :
        /\ i = 1 \/ host[i - 1] = "."
        /\ toLowerChar(host[i]) = "x" /\ toLowerChar(host[i + 1]) = "n"
        /\ host[i + 2] = "-" /\ host[i + 3] = "-"

\* host state and port state: hp is the authority after its credentials.
\* The host of a special scheme goes through domain-to-ASCII: it is
\* lower-cased, and a label with the ACE prefix that is not the Punycode of
\* a valid label makes the parse fail
ParseHostPort(hp, special) ==
    LET c    == FirstIdx(hp, {":"})
        host == SubSeq(hp, 1, c - 1)
        port == Drop(hp, c)
    IN  IF host = <<>> /\ (special \/ c <= Len(hp)) THEN UrlFailure
        ELSE IF special /\ HasAceLabel(host) THEN UrlFailure
        ELSE IF \E i \in 1..Len(port) : ~IsDigit(port[i]) THEN UrlFailure
        ELSE IF DigitsVal(port) > 65535 THEN UrlFailure
        ELSE [ok |-> TRUE,
              hostname |-> IF special THEN toLowerCase(host) ELSE host]

\* authority state: text up to the first / ? #, credentials end at the last @
ParseAuthority(s, special) ==
    LET e    == FirstIdx(s, {"/", "?", "#"})
        auth == SubSeq(s, 1, e - 1)
        at   == LastIdx(auth, {"@"})
        hp   == Drop(auth, at)
    IN  IF at > 0 /\ hp = <<>> THEN UrlFailure
        ELSE ParseHostPort(hp, special)

ParseURL(s) ==
    LET colon  == FirstIdx(s, {":"})
        raw    == SubSeq(s, 1, colon - 1)
        scheme == toLowerCase(raw)
        rest   == Drop(s, colon)
    IN  IF colon > Len(s) \/ raw = <<>> THEN UrlFailure
        ELSE IF ~IsAlpha(raw[1]) THEN UrlFailure
        ELSE IF \E i \in 2..Len(raw) :
                    ~(IsAlpha(raw[i]) \/ IsDigit(raw[i]) \/ raw[i] \in {"+", "-", "."})
             THEN UrlFailure
        ELSE IF scheme \in SpecialSchemes
             THEN ParseAuthority(Drop(rest, LeadingSlashes(rest)), TRUE)
        ELSE IF LeadingSlashes(rest) >= 2
             THEN ParseAuthority(Drop(rest, 2), FALSE)
        ELSE [ok |-> TRUE, hostname |-> <<>>]

\* the allow-list of routes.ts line 54
AllowedHosts ==
    { <<"w","w","w",".","y","o","u","t","u","b","e",".","c","o","m">>,
      <<"y","o","u","t","u","b","e",".","c","o","m">>,
      <<"y","o","u","t","u",".","b","e">>,
      <<"m",".","y","o","u","t","u","b","e",".","c","o","m">> }

validateYouTubeUrl(urlString) ==
    LET url == ParseURL(urlString)
    IN  IF ~url.ok THEN FALSE
        ELSE toLowerCase(url.hostname) \in AllowedHosts

(***************************************************************************)
(* runCommand: the promise around the spawned process                      *)
(***************************************************************************)
\* String.prototype.includes
Includes(s, sub) ==
    \E i \in 1..(Len(s) - Len(sub) + 1) : SubSeq(s, i, i + Len(sub) - 1) = sub

ErrorWord == <<"e","r","r","o","r">>

\* exit code reported by "close" after a failed spawn: -ENOENT when the
\* command does not exist, -EACCES when it is not executable
SpawnFailCode == 0 - 2
SpawnDeniedCode == 0 - 13

\* message of the error object of a failed spawn, "spawn <command> <errno>",
\* as the pieces whose concatenation is the text
LaunchErrorMessage(command, code) ==
    <<"spawn ", command, " ", IF code = SpawnDeniedCode THEN "EACCES" ELSE "ENOENT">>

\* the "close" listener: what it passes to resolve or reject
CloseHandler(code, stdout, stderr) ==
    IF code = 0 THEN [state |-> "resolved", value |-> stdout]
    ELSE IF stdout = <<>> /\ Includes(toLowerCase(stderr), ErrorWord)
         THEN [state |-> "rejected", value |-> stderr]
         ELSE [state |-> "resolved", value |-> stdout]

\* the "error" listener: reject(err)
ErrorHandler(err) == [state |-> "rejected", value |-> err]

\* a promise that takes every settlement
Settle_LastWins(cur, new) == new

\* a promise keeps its first settlement
Settle(cur, new) == IF cur.state = "pending" THEN new ELSE cur

\* await runCommand(command, ...) for a process with outcome o, as the
\* handlers see it
runCommand(command, o) ==
    IF o.errored THEN ErrorHandler(LaunchErrorMessage(command, o.code))
    ELSE CloseHandler(o.code, o.stdout, o.stderr)

(***************************************************************************)
(* Numbers that may be NaN or infinite, parseInt, and the arguments of the *)
(* crop step.  A number is NaN, an integer v (inf = 0), or the infinity of *)
(* sign inf.                                                               *)
(***************************************************************************)
NaN == [nan |-> TRUE, inf |-> 0, v |-> 0]
Num(v) == [nan |-> FALSE, inf |-> 0, v |-> v]
Infinity(sign) == [nan |-> FALSE, inf |-> sign, v |-> 0]

\* the literal of the infinite number in numeric texts
InfinityText == <<"I","n","f","i","n","i","t","y">>

\* the digits of radix 16, upper case folded
HexChars == <<"0","1","2","3","4","5","6","7","8","9","a","b","c","d","e","f">>

\* value of a string of digits of the radix (2, 8, 10 or 16)
RECURSIVE RadixVal(_, _)
RadixVal(s, radix) ==
    IF s = <<>> THEN 0
    ELSE RadixVal(SubSeq(s, 1, Len(s) - 1), radix) * radix
             + (CHOOSE i \in 1..16 : HexChars[i] = toLowerChar(s[Len(s)])) - 1

\* parseInt of a string with no radix argument: leading spaces, optional
\* sign, a 0x or 0X prefix that selects radix 16, then the leading digits
\* of the radix; NaN when there is no digit
parseIntText(s0) ==
    LET s      == trim(s0)
        signed == s # <<>> /\ s[1] \in {"-", "+"}
        body   == IF signed THEN Tail(s) ELSE s
        hex    == Len(body) >= 2 /\ body[1] = "0" /\ body[2] \in {"x", "X"}
        radix  == IF hex THEN 16 ELSE 10
        text   == IF hex THEN Drop(body, 2) ELSE body
        valid  == {HexChars[i] : i \in 1..radix}
        n      == FirstIdx(text, {c \in Range(text) : toLowerChar(c) \notin valid}) - 1
        mag    == RadixVal(SubSeq(text, 1, n), radix)
    IN  IF n = 0 THEN NaN
        ELSE IF signed /\ s[1] = "-" THEN Num(0 - mag) ELSE Num(mag)

\* parseInt of a JSON body field: an integer number, a string, or a missing
\* field (undefined)
parseInt(x) ==
    IF x.t = "number" THEN Num(x.n)
    ELSE IF x.t = "string" THEN parseIntText(x.s)
    ELSE NaN

JsonNumber(n) == [t |-> "number", n |-> n, s |-> <<>>]
JsonString(s) == [t |-> "string", n |-> 0, s |-> s]
JsonUndefined == [t |-> "undefined", n |-> 0, s |-> <<>>]

\* (parseInt(position) || 50): NaN and 0 are falsy
posPercent(position) ==
    LET r == parseInt(position)
    IN  IF r.nan \/ r.inf # 0 \/ r.v = 0 THEN 50 ELSE r.v

\* targetW_expr of the crop branch
targetW_expr(aspectRatio) ==
    IF aspectRatio = "9:16" THEN "ih*9/16"
    ELSE IF aspectRatio = "1:1" THEN "ih"
    ELSE ""

\* cropFilter: crop=w=<w>:h=ih:x=(iw-ow)*<posFactor>:y=0, with posFactor
\* kept as the fraction xPercent / 100
cropFilter(aspectRatio, position) ==
    [w |-> targetW_expr(aspectRatio), h |-> "ih",
     xPercent |-> posPercent(position), y |-> 0]

NoFilter == [w |-> "none", h |-> "none", xPercent |-> 0, y |-> 0]

\* an argument vector that crops only the ratios it has a width for and
\* stream-copies every other one
cropArgs_CopyUnknown(inputPath, aspectRatio, position, processedPath) ==
    IF aspectRatio \in {"9:16", "1:1"}
    THEN [hwaccel |-> "auto", i |-> inputPath,
          filtered |-> TRUE, vf |-> cropFilter(aspectRatio, position),
          codec |-> <<"-c:v", "libx264", "-preset", "veryfast", "-tune", "film",
                      "-threads", "0", "-crf", "23", "-c:a", "copy">>,
          movflags |-> "+faststart", out |-> processedPath]
    ELSE [hwaccel |-> "auto", i |-> inputPath,
          filtered |-> FALSE, vf |-> NoFilter,
          codec |-> <<"-c", "copy">>,
          movflags |-> "+faststart", out |-> processedPath]

\* the argument vector of /api/process-crop
cropArgs(inputPath, aspectRatio, position, processedPath) ==
    IF aspectRatio # "16:9"
    THEN [hwaccel |-> "auto", i |-> inputPath,
          filtered |-> TRUE, vf |-> cropFilter(aspectRatio, position),
          codec |-> <<"-c:v", "libx264", "-preset", "veryfast", "-tune", "film",
                      "-threads", "0", "-crf", "23", "-c:a", "copy">>,
          movflags |-> "+faststart", out |-> processedPath]
    ELSE [hwaccel |-> "auto", i |-> inputPath,
          filtered |-> FALSE, vf |-> NoFilter,
          codec |-> <<"-c", "copy">>,
          movflags |-> "+faststart", out |-> processedPath]

\* what the transcoder makes of a width expression for a source of height ih
EvalWidth(expr, ih) ==
    IF expr = "ih*9/16" THEN (ih * 9) \div 16
    ELSE IF expr = "ih*4/5" THEN (ih * 4) \div 5
    ELSE ih

\* one hundred times the x offset the transcoder computes from the filter
XOffsetTimes100(filter, iw, ih) == (iw - EvalWidth(filter.w, ih)) * filter.xPercent

(***************************************************************************)
(* Text splitting and number parsing used by the handlers                  *)
(***************************************************************************)
\* index at which sep first occurs in s, 0 when it does not
IndexOf(s, sep) ==
    LET at == {i \in 1..(Len(s) - Len(sep) + 1) : SubSeq(s, i, i + Len(sep) - 1) = sep}
    IN  IF at = {} THEN 0 ELSE CHOOSE i \in at : \A j \in at : i <= j

\* String.prototype.split with a non-empty separator
RECURSIVE split(_, _)
split(s, sep) ==
    LET i == IndexOf(s, sep)
    IN  IF i = 0 THEN <<s>>
        ELSE <<SubSeq(s, 1, i - 1)>> \o split(Drop(s, i + Len(sep) - 1), sep)

\* a conversion that takes a digit run with a leading zero for no number
Number_NoLeadingZero(s) ==
    LET t == trim(s)
    IN  IF t = <<>> THEN Num(0)
        ELSE IF \E i \in 1..Len(t) : ~IsDigit(t[i]) THEN NaN
        ELSE IF Len(t) > 1 /\ t[1] = "0" THEN NaN
        ELSE Num(DigitsVal(t))

\* Number(text) for text over digits, sign, spaces and letters: a decimal
\* integer or Infinity with an optional sign, or an unsigned integer with
\* the prefix 0x, 0o or 0b in either case; the empty text is 0 and every
\* other text is NaN (fractions and exponents are outside the inputs)
Number(s) ==
    LET t      == trim(s)
        signed == t # <<>> /\ t[1] \in {"-", "+"}
        body   == IF signed THEN Tail(t) ELSE t
        radix  == IF Len(t) >= 2 /\ t[1] = "0"
                  THEN (IF t[2] \in {"x", "X"} THEN 16
                        ELSE IF t[2] \in {"o", "O"} THEN 8
                        ELSE IF t[2] \in {"b", "B"} THEN 2 ELSE 10)
                  ELSE 10
        text   == Drop(t, 2)
    IN  IF t = <<>> THEN Num(0)
        ELSE IF radix # 10
        THEN (IF text = <<>> \/ \E i \in 1..Len(text) :
                     toLowerChar(text[i]) \notin {HexChars[k] : k \in 1..radix}
              THEN NaN ELSE Num(RadixVal(text, radix)))
        ELSE IF body = InfinityText
        THEN Infinity(IF signed /\ t[1] = "-" THEN 0 - 1 ELSE 1)
        ELSE IF body = <<>> \/ \E i \in 1..Len(body) : ~IsDigit(body[i]) THEN NaN
        ELSE IF signed /\ t[1] = "-" THEN Num(0 - DigitsVal(body))
        ELSE Num(DigitsVal(body))

\* parseFloat(text) for text without a fraction or exponent: leading spaces,
\* optional sign, then the literal Infinity or the leading decimal digits
\* (no radix prefix)
parseFloat(s0) ==
    LET s      == trim(s0)
        signed == s # <<>> /\ s[1] \in {"-", "+"}
        body   == IF signed THEN Tail(s) ELSE s
        n      == FirstIdx(body, Range(body) \ Range(DigitChars)) - 1
        mag    == DigitsVal(SubSeq(body, 1, n))
        minus  == signed /\ s[1] = "-"
    IN  IF Len(body) >= Len(InfinityText)
           /\ SubSeq(body, 1, Len(InfinityText)) = InfinityText
        THEN Infinity(IF minus THEN 0 - 1 ELSE 1)
        ELSE IF n = 0 THEN NaN
        ELSE IF minus THEN Num(0 - mag) ELSE Num(mag)

\* arithmetic of numbers that may be NaN or infinite: infinities of
\* opposite signs add up to NaN, the factor k is a positive integer
NumAdd(a, b) ==
    IF a.nan \/ b.nan THEN NaN
    ELSE IF a.inf # 0 /\ b.inf # 0 THEN (IF a.inf = b.inf THEN a ELSE NaN)
    ELSE IF a.inf # 0 THEN a
    ELSE IF b.inf # 0 THEN b
    ELSE Num(a.v + b.v)
NumSub(a, b) == NumAdd(a, IF b.nan THEN NaN ELSE [b EXCEPT !.inf = 0 - @, !.v = 0 - @])
NumMul(a, k) == IF a.nan THEN NaN ELSE IF a.inf # 0 THEN a ELSE Num(a.v * k)

\* x || 0 for a number: NaN and 0 are falsy
OrZero(a) == IF a.nan THEN Num(0) ELSE a

\* a parser that weighs the first of two parts as hours
parseTimestamp_MinutesAsHours(timeStr) ==
    LET parts == [i \in 1..Len(split(timeStr, <<":">>)) |->
                      Number(split(timeStr, <<":">>)[i])]
    IN  IF Len(parts) = 3
        THEN NumAdd(NumAdd(NumMul(parts[1], 3600), NumMul(parts[2], 60)), parts[3])
        ELSE IF Len(parts) = 2
        THEN NumAdd(NumMul(parts[1], 3600), parts[2])
        ELSE OrZero(parts[1])

parseTimestamp(timeStr) ==
    LET parts == [i \in 1..Len(split(timeStr, <<":">>)) |->
                      Number(split(timeStr, <<":">>)[i])]
    IN  IF Len(parts) = 3
        THEN NumAdd(NumAdd(NumMul(parts[1], 3600), NumMul(parts[2], 60)), parts[3])
        ELSE IF Len(parts) = 2
        THEN NumAdd(NumMul(parts[1], 60), parts[2])
        ELSE OrZero(parts[1])

\* parseTimestamp applied to a field of a request body: timeStr.split is
\* not a function unless the field is a string, and the call throws
parseTimestampCall(x) ==
    IF x.t = "string" THEN [kind |-> "number", v |-> parseTimestamp(x.s)]
    ELSE [kind |-> "throws", v |-> NaN]

(***************************************************************************)
(* The metadata cache and the output of the downloader                     *)
(***************************************************************************)
\* 1000 * 60 * 30 of the cache test in /api/video-info
FreshnessWindow == 1000 * 60 * 30

UnknownVideo == <<"U","n","k","n","o","w","n"," ","V","i","d","e","o">>
UnknownChannel == <<"U","n","k","n","o","w","n"," ","C","h","a","n","n","e","l">>

\* element i of an array, or the fallback when it is missing or empty
\* (a[i] || fallback)
ElemOr(a, i, fallback) == IF i <= Len(a) /\ a[i] # <<>> THEN a[i] ELSE fallback

\* lines 107-117: the cache entry made from the downloader's stdout at time
\* t; the duration is a number that is not NaN
parseMetadata(stdout, t) ==
    LET lines    == split(trim(stdout), <<"\n">>)
        meta     == split(lines[1], <<"|","|","|">>)
        videoUrl == ElemOr(lines, 2, <<>>)
    IN  [title     |-> IF meta[1] # <<>> THEN trim(meta[1]) ELSE UnknownVideo,
         thumbnail |-> ElemOr(meta, 2, <<>>),
         duration  |-> OrZero(parseFloat(ElemOr(meta, 3, <<>>))),
         channel   |-> ElemOr(meta, 4, UnknownChannel),
         videoUrl  |-> videoUrl,
         audioUrl  |-> ElemOr(lines, 3, videoUrl),
         timestamp |-> t]

\* a response body that also carries the stream locators of the entry
InfoBody_WithStreams(e) ==
    [title |-> e.title, thumbnail |-> e.thumbnail,
     duration |-> e.duration, channel |-> e.channel,
     videoUrl |-> e.videoUrl, audioUrl |-> e.audioUrl]

\* the body of a successful /api/video-info response
InfoBody(e) ==
    [title |-> e.title, thumbnail |-> e.thumbnail,
     duration |-> e.duration, channel |-> e.channel]

\* videoCache.get(url) is undefined
CacheMissing(cache, url) == url \notin DOMAIN cache

\* a set that updates an existing entry in place and keeps its locators
CacheSet_Merged(cache, url, entry) ==
    [k \in (DOMAIN cache) \cup {url} |->
        IF k # url THEN cache[k]
        ELSE IF url \in DOMAIN cache
        THEN [entry EXCEPT !.videoUrl = cache[url].videoUrl, !.audioUrl = cache[url].audioUrl]
        ELSE entry]

\* a set that keeps the new entry only
CacheSet_Only(cache, url, entry) == [k \in {url} |-> entry]

\* a set that stores nothing
CacheSet_Dropped(cache, url, entry) == cache

\* videoCache.set(url, entry)
CacheSet(cache, url, entry) ==
    [k \in (DOMAIN cache) \cup {url} |-> IF k = url THEN entry ELSE cache[k]]

\* a freshness test that still accepts an entry at the end of the window
CacheFresh_Inclusive(cached, t) == t - cached.timestamp <= FreshnessWindow

\* the freshness test of /api/video-info at time t
CacheFresh(cached, t) == t - cached.timestamp < FreshnessWindow

\* a test that refuses nothing
InfoUrlRejected_Never(url) == FALSE

\* a URL test that only refuses the empty text
InfoUrlRejected_EmptyOnly(url) == url = <<>>

\* the URL test of /api/video-info: !url || !validateYouTubeUrl(url)
InfoUrlRejected(url) == url = <<>> \/ ~validateYouTubeUrl(url)

\* the argument vector of /api/video-info
infoArgs(url) ==
    [command |-> "yt-dlp",
     print   |-> "%(title)s|||%(thumbnail)s|||%(duration)s|||%(uploader)s",
     format  |-> "bestvideo[ext=mp4]+bestaudio[ext=m4a]/best[ext=mp4]/best",
     url     |-> url]

\* `${x}` for a number without a fraction
RECURSIVE NatText(_)
NatText(n) ==
    IF n < 10 THEN <<DigitChars[n + 1]>>
    ELSE NatText(n \div 10) \o <<DigitChars[(n % 10) + 1]>>

NumText(x) ==
    IF x.nan THEN <<"N","a","N">>
    ELSE IF x.inf # 0 THEN (IF x.inf < 0 THEN <<"-">> ELSE <<>>) \o InfinityText
    ELSE IF x.v < 0 THEN <<"-">> \o NatText(0 - x.v)
    ELSE NatText(x.v)

\* two decimal digits at least, padded with a zero
Pad2(n) == IF n < 10 THEN <<"0">> \o NatText(n) ELSE NatText(n)

\* format(seconds): zero-padded H:MM:SS
secondsToTime(sec) ==
    Pad2(sec \div 3600) \o <<":">> \o Pad2((sec % 3600) \div 60) \o <<":">> \o Pad2(sec % 60)

\* the argument vector with the audio input read from its beginning
fetchArgs_AudioUnseeked(cached, startSec, durationSec, outputTemplate) ==
    [command |-> "ffmpeg",
     inputs  |-> IF cached.videoUrl # cached.audioUrl
                 THEN << [ss |-> NumText(startSec), t |-> NumText(durationSec),
                          i |-> cached.videoUrl],
                         [ss |-> NumText(Num(0)), t |-> NumText(durationSec),
                          i |-> cached.audioUrl] >>
                 ELSE << [ss |-> NumText(startSec), t |-> NumText(durationSec),
                          i |-> cached.videoUrl] >>,
     map     |-> IF cached.videoUrl # cached.audioUrl
                 THEN <<"0:v", "1:a">> ELSE <<"0">>,
     codec   |-> <<"-c:v", "copy", "-c:a", "aac", "-b:a", "192k">>,
     movflags |-> "+faststart",
     out     |-> outputTemplate]

\* the argument vector of /api/fetch-segment: every input is preceded by
\* its own -ss and -t
fetchArgs(cached, startSec, durationSec, outputTemplate) ==
    [command |-> "ffmpeg",
     inputs  |-> IF cached.videoUrl # cached.audioUrl
                 THEN << [ss |-> NumText(startSec), t |-> NumText(durationSec),
                          i |-> cached.videoUrl],
                         [ss |-> NumText(startSec), t |-> NumText(durationSec),
                          i |-> cached.audioUrl] >>
                 ELSE << [ss |-> NumText(startSec), t |-> NumText(durationSec),
                          i |-> cached.videoUrl] >>,
     map     |-> IF cached.videoUrl # cached.audioUrl
                 THEN <<"0:v", "1:a">> ELSE <<"0">>,
     codec   |-> <<"-c:v", "copy", "-c:a", "aac", "-b:a", "192k">>,
     movflags |-> "+faststart",
     out     |-> outputTemplate]

(***************************************************************************)
(* File names and paths.  A path is the sequence of its segments below     *)
(* the root; path.join is modelled for POSIX separators.                   *)
(***************************************************************************)
\* `final_${Date.now()}.mp4`
FinalName(t) == [kind |-> "final", t |-> t]

\* the text of a generated file name
NameText(f) ==
    (IF f.kind = "hq" THEN <<"h","q","_">> ELSE <<"f","i","n","a","l","_">>)
        \o NatText(f.t) \o <<".","m","p","4">>

\* process.cwd()
CwdPath == << <<"a","p","p">> >>

\* path.join(process.cwd(), "downloads")
DOWNLOADS_DIR == CwdPath \o << <<"d","o","w","n","l","o","a","d","s">> >>

\* A path is the tuple of its segments after the root; a path that ends
\* with a separator has the empty segment last.
\* normalizeString of path.normalize: empty and "." segments vanish, ".."
\* removes the segment before it and is dropped at the root
RECURSIVE normalizeString(_, _)
normalizeString(done, todo) ==
    IF todo = <<>> THEN done
    ELSE IF Head(todo) = <<>> \/ Head(todo) = <<".">>
         THEN normalizeString(done, Tail(todo))
    ELSE IF Head(todo) = <<".", ".">>
         THEN normalizeString(IF done = <<>> THEN <<>> ELSE SubSeq(done, 1, Len(done) - 1),
                              Tail(todo))
    ELSE normalizeString(Append(done, Head(todo)), Tail(todo))

\* path.normalize of an absolute path: a trailing separator is kept, except
\* on the root
Normalize(path) ==
    LET n == normalizeString(<<>>, path)
    IN  IF path # <<>> /\ path[Len(path)] = <<>> /\ n # <<>>
        THEN Append(n, <<>>) ELSE n

\* path.join(dir, name) for an absolute dir: an empty name is left out
pathJoin(dir, name) ==
    IF name = <<>> THEN Normalize(dir)
    ELSE Normalize(dir \o split(name, <<"/">>))

\* a file outside the downloads directory
OutsideFiles == { CwdPath \o << <<"s","e","c","r","e","t",".","m","p","4">> >> }

\* existsSync(path) when the downloads directory holds fs
existsSync(path, fs) ==
    \/ path \in {DOWNLOADS_DIR \o <<NameText(f)>> : f \in fs}
    \/ path \in OutsideFiles
    \/ path \in {<<>>, CwdPath, DOWNLOADS_DIR}
    \/ path \in {Append(CwdPath, <<>>), Append(DOWNLOADS_DIR, <<>>)}

\* fs.unlink(processedPath)
unlink(fs, f) == fs \ {f}

(***************************************************************************)
(* The validator on its own: every text head \o middle \o tail is offered  *)
(* to validateYouTubeUrl once.                                             *)
(***************************************************************************)
\* scheme part of the texts offered to the validator
UrlHeads ==
    { <<"h","t","t","p","s",":","/","/">>,
      <<"h","t","t","p",":","/","/">>,
      <<"H","T","T","P","S",":","/","/">>,
      <<"f","t","p",":","/","/">>,
      <<"h","t","t","p","s",":">>,
      <<"f","o","o",":","/","/">>,
      <<"f","o","o",":">>,
      <<>>,
      <<"/","/">>,
      <<"1","t","t","p",":","/","/">> }

\* authority part: allow-listed hosts, the documented music host, look-alikes,
\* a host with a label that is not valid Punycode
UrlMiddles ==
    { <<"w","w","w",".","y","o","u","t","u","b","e",".","c","o","m">>,
      <<"y","o","u","t","u","b","e",".","c","o","m">>,
      <<"y","o","u","t","u",".","b","e">>,
      <<"m",".","y","o","u","t","u","b","e",".","c","o","m">>,
      <<"m","u","s","i","c",".","y","o","u","t","u","b","e",".","c","o","m">>,
      <<"W","W","W",".","Y","o","u","T","u","b","e",".","C","O","M">>,
      <<"y","o","u","t","u","b","e",".","c","o","m",".","e","v","i","l",".","i","o">>,
      <<"x","y","o","u","t","u","b","e",".","c","o","m">>,
      <<"y","o","u","t","u","b","e",".","c","o">>,
      <<"y","o","u","t","u",".","b","e",".">>,
      <<"e","v","i","l",".","e","x","a","m","p","l","e">>,
      <<"x","n","-","-","a",".","y","o","u","t","u","b","e",".","c","o","m">>,
      <<"y","o","u","t","u","b","e",".","c","o","m","@","e","v","i","l",".","i","o">>,
      <<"e","v","i","l",".","i","o","@","y","o","u","t","u","b","e",".","c","o","m">>,
      <<>> }

\* port, path, query and fragment part
UrlTails ==
    { <<>>,
      <<"/","x">>,
      <<":","8","0","/","x">>,
      <<"?","v","=","a">>,
      <<"#","t">>,
      <<":","x","/">>,
      <<":","9","9","9","9","9">> }

UrlTexts == {h \o m \o t : h \in UrlHeads, m \in UrlMiddles, t \in UrlTails}

\* the components a specification does not exercise stay in these states
IdleUrl == urlArg = <<>> /\ urlRes = "none"
IdleRun ==
    /\ proc = [phase |-> "none", command |-> "none", errored |-> FALSE,
               code |-> 0, chunks |-> 0]
    /\ procOut = <<>> /\ procErr = <<>>
    /\ settled = [state |-> "pending", value |-> <<>>]
IdleCrop == cropReq = [phase |-> "none"] /\ cropCmd = [phase |-> "none"]
IdleTime == timeArg = [t |-> "undefined", n |-> 0, s |-> <<>>] /\ timeRes = [kind |-> "none"]

\* what the editor shows: the URL field and the start and end fields
NoShown == [url |-> <<>>, startTime |-> <<>>, endTime |-> <<>>]

\* fetchedVideo === null
NoFetchedVideo == [present |-> FALSE, from |-> NoShown]

\* the useState initial values of VideoEditor (lines 65-78)
EditorInitial ==
    [url             |-> <<>>,
     startTime       |-> <<"0","0",":","0","0",":","0","0">>,
     endTime         |-> <<"0","0",":","0","0",":","3","0">>,
     shouldFetchInfo |-> FALSE,
     infoFetching    |-> {},
     infoLoaded      |-> {},
     fetchedVideo    |-> NoFetchedVideo,
     pending         |-> NoFetchedVideo,
     lastCrop        |-> NoFetchedVideo]

IdleEditor == editor = EditorInitial
IdleServer ==
    /\ now = 0 /\ resolved = {} /\ videoCache = <<>> /\ inflight = {} /\ files = {}
    /\ extracted = {}
    /\ lastOp = [op |-> "none"] /\ nreq = 0

InitUrl ==
    /\ urlArg \in UrlTexts
    /\ urlRes = "none"
    /\ IdleRun /\ IdleCrop /\ IdleTime /\ IdleServer /\ IdleEditor

\* one call of validateYouTubeUrl(urlArg); the catch clause maps a parse
\* failure to false
ValidateCall ==
    /\ urlRes = "none"
    /\ urlRes' = IF validateYouTubeUrl(urlArg) THEN "true" ELSE "false"
    /\ UNCHANGED <<urlArg, runVars, cropVars, timeVars, serverVars, editorVars>>

NextUrl == ValidateCall

SpecUrl == InitUrl /\ [][NextUrl]_vars

(***************************************************************************)
(* The process runner on its own: one spawned process emitting data,       *)
(* error and close events.                                                 *)
(***************************************************************************)
\* number of data events of one process
MaxChunks == 3

\* exit codes of a process that was launched
ExitCodes == {0, 1, 2}

\* the commands of the three routes
RunCommands == {"yt-dlp", "ffmpeg"}

StdoutChunks == { <<"V">>, <<"T","|","|","|","h">> }

StderrChunks == { <<"E","R","R","O","R",":"," ","x">>, <<"E","r","r">>, <<"o","r">>, <<"w","a","r","n">> }

InitRun ==
    /\ proc \in [phase : {"running"}, command : RunCommands, errored : {FALSE},
                 code : {0}, chunks : {0}]
    /\ procOut = <<>> /\ procErr = <<>>
    /\ settled = [state |-> "pending", value |-> <<>>]
    /\ IdleUrl /\ IdleCrop /\ IdleTime /\ IdleServer /\ IdleEditor

\* proc.stdout.on("data", ...)
StdoutData(chunk) ==
    /\ proc.phase = "running" /\ ~proc.errored
    /\ proc.chunks < MaxChunks
    /\ procOut' = procOut \o chunk
    /\ proc' = [proc EXCEPT !.chunks = @ + 1]
    /\ UNCHANGED <<procErr, settled, urlVars, cropVars, timeVars, serverVars, editorVars>>

\* proc.stderr.on("data", ...)
StderrData(chunk) ==
    /\ proc.phase = "running" /\ ~proc.errored
    /\ proc.chunks < MaxChunks
    /\ procErr' = procErr \o chunk
    /\ proc' = [proc EXCEPT !.chunks = @ + 1]
    /\ UNCHANGED <<procOut, settled, urlVars, cropVars, timeVars, serverVars, editorVars>>

\* proc.on("error", ...): the process could not be launched
ErrorEvent(code) ==
    /\ proc.phase = "running" /\ ~proc.errored
    /\ proc.chunks = 0
    /\ proc' = [proc EXCEPT !.errored = TRUE, !.code = code]
    /\ settled' = Settle(settled, ErrorHandler(LaunchErrorMessage(proc.command, code)))
    /\ UNCHANGED <<procOut, procErr, urlVars, cropVars, timeVars, serverVars, editorVars>>

\* proc.on("close", ...)
CloseEvent(code) ==
    /\ proc.phase = "running"
    /\ IF proc.errored THEN code = proc.code ELSE code \in ExitCodes
    /\ proc' = [proc EXCEPT !.phase = "closed", !.code = code]
    /\ settled' = Settle(settled, CloseHandler(code, procOut, procErr))
    /\ UNCHANGED <<procOut, procErr, urlVars, cropVars, timeVars, serverVars, editorVars>>

NextRun ==
    \/ \E chunk \in StdoutChunks : StdoutData(chunk)
    \/ \E chunk \in StderrChunks : StderrData(chunk)
    \/ \E code \in {SpawnFailCode, SpawnDeniedCode} : ErrorEvent(code)
    \/ \E code \in ExitCodes \cup {SpawnFailCode, SpawnDeniedCode} : CloseEvent(code)

SpecRun == InitRun /\ [][NextRun]_vars

(***************************************************************************)
(* The crop arguments on their own: one /api/process-crop body, one        *)
(* argument vector built from it.                                          *)
(***************************************************************************)
\* aspect ratios offered by the editor, and one it does not offer
AspectInputs == {"9:16", "1:1", "16:9", "4:5", "21:9"}

\* largest crop position the editor sends
MaxPosition == 100

PositionInputs ==
    {JsonNumber(n) : n \in 0..MaxPosition}
        \cup {JsonString(s) : s \in {<<"7","5">>, <<"0">>, <<"a","b","c">>, <<>>, <<"-","5">>, <<"1","2","p","x">>,
                                     <<"0","x","1","0">>, <<"0","X","1","f">>, <<"0","x">>}}
        \cup {JsonUndefined}

\* the sample source the offsets are evaluated on
SourceGeometry == [w |-> 1280, h |-> 720]

InitCrop ==
    /\ cropReq \in [phase : {"request"}, filename : {"hq_0.mp4"},
                    aspectRatio : AspectInputs, position : PositionInputs]
    /\ cropCmd = [phase |-> "none"]
    /\ IdleUrl /\ IdleRun /\ IdleTime /\ IdleServer /\ IdleEditor

\* lines 183-214: the argument vector for the request
BuildCropArgs ==
    /\ cropCmd.phase = "none"
    /\ cropCmd' = [phase |-> "built",
                   args |-> cropArgs(cropReq.filename, cropReq.aspectRatio,
                                     cropReq.position, "final_0.mp4")]
    /\ UNCHANGED <<cropReq, urlVars, runVars, timeVars, serverVars, editorVars>>

NextCrop == BuildCropArgs

SpecCrop == InitCrop /\ [][NextCrop]_vars

(***************************************************************************)
(* The server: /api/video-info and /api/fetch-segment over the shared      *)
(* cache, each handler split at its `await runCommand(...)`.               *)
(***************************************************************************)
\* requests received in one behaviour
MaxRequests == 2

\* clock steps in one behaviour
MaxTicks == 3

\* one clock step: ten minutes
TickMs == 1000 * 60 * 10

UrlA == <<"h","t","t","p","s",":","/","/","y","o","u","t","u",".","b","e","/","a">>
UrlB == <<"h","t","t","p",":","/","/","W","W","W",".","Y","o","u","T","u","b","e",".","c","o","m","/","b">>
UrlEvil == <<"f","t","p",":","/","/","e","v","i","l",".","e","x","a","m","p","l","e","/","x">>

\* URLs sent to the server
ServerUrls == {UrlA, UrlB, UrlEvil, <<>>}

T10 == <<"0","0",":","0","0",":","1","0">>
T25 == <<"0","0",":","0","0",":","2","5">>
T180 == <<"0","0",":","0","3",":","0","0">>

\* <<startTime, endTime>> texts sent to /api/fetch-segment: a range inside
\* the video, a reversed one, an empty one, one that ends after the video
TimeRanges == { <<T10, T25>>, <<T25, T10>>, <<T10, T10>>, <<T10, T180>> }

StdoutFull == <<"T","|","|","|","h","|","|","|","1","2","0","|","|","|","C","\n","V","\n","A">>
StdoutMuxed == <<"T","|","|","|","h","|","|","|","I","n","f","i","n","i","t","y","|","|","|","C","\n","V","\n">>
StdoutNoStream == <<"T","|","|","|","h","|","|","|","1","2","0","|","|","|","C">>
StderrError == <<"E","R","R","O","R",":"," ","x">>
StderrWarn == <<"W","A","R","N","I","N","G",":"," ","y">>

Outcome(errored, code, stdout, stderr) ==
    [errored |-> errored, code |-> code, stdout |-> stdout, stderr |-> stderr]

NoOutcome == Outcome(FALSE, 0, <<>>, <<>>)

\* how a run of the downloader can end
DownloaderOutcomes ==
    { Outcome(FALSE, 0, StdoutFull, <<>>),
      Outcome(FALSE, 0, StdoutMuxed, StderrWarn),
      Outcome(FALSE, 0, StdoutNoStream, <<>>),
      Outcome(FALSE, 0, <<>>, <<>>),
      Outcome(FALSE, 1, <<>>, StderrError),
      Outcome(FALSE, 1, <<>>, StderrWarn),
      Outcome(TRUE, SpawnFailCode, <<>>, <<>>) }

\* how a run of the transcoder can end
TranscoderOutcomes ==
    { Outcome(FALSE, 0, <<>>, StderrWarn),
      Outcome(FALSE, 1, <<>>, StderrError),
      Outcome(FALSE, 1, <<>>, StderrWarn),
      Outcome(TRUE, SpawnFailCode, <<>>, <<>>) }

NoCmd == [command |-> "none"]
NoBody == [kind |-> "none"]

\* what is recorded of a handler step: the request, whether the step spawned
\* a subprocess and with which arguments, the outcome of the subprocess it
\* awaited, and the response it sent (status 0: none yet)
Op(op, phase, rid, url, startTime, endTime, launched, cmd, outcome, status, message, body) ==
    [op |-> op, phase |-> phase, rid |-> rid, url |-> url,
     startTime |-> startTime, endTime |-> endTime,
     launched |-> launched, cmd |-> cmd, outcome |-> outcome,
     status |-> status, message |-> message, body |-> body]

InitServer ==
    /\ now = 0 /\ resolved = {} /\ videoCache = <<>> /\ inflight = {} /\ files = {}
    /\ extracted = {}
    /\ lastOp = Op("none", "none", 0, <<>>, <<>>, <<>>, FALSE, NoCmd, NoOutcome, 0, "", NoBody)
    /\ nreq = 0
    /\ IdleUrl /\ IdleRun /\ IdleCrop /\ IdleTime /\ IdleEditor

\* GET /api/video-info up to its response or its await (lines 79-106)
InfoHandler(url) ==
    /\ nreq' = nreq + 1
    /\ IF InfoUrlRejected(url)
       THEN /\ lastOp' = Op("info", "request", nreq + 1, url, <<>>, <<>>, FALSE, NoCmd,
                            NoOutcome, 400, "Invalid URL", NoBody)
            /\ UNCHANGED inflight
       ELSE IF ~CacheMissing(videoCache, url) /\ CacheFresh(videoCache[url], now)
       THEN /\ lastOp' = Op("info", "request", nreq + 1, url, <<>>, <<>>, FALSE, NoCmd,
                            NoOutcome, 200, "", InfoBody(videoCache[url]))
            /\ UNCHANGED inflight
       ELSE /\ lastOp' = Op("info", "request", nreq + 1, url, <<>>, <<>>, TRUE,
                            infoArgs(url), NoOutcome, 0, "", NoBody)
            /\ inflight' = inflight \cup
                   {[rid |-> nreq + 1, op |-> "info", url |-> url,
                     cmd |-> infoArgs(url), filename |-> NoBody]}
    /\ UNCHANGED <<now, resolved, videoCache, files, extracted,
                   urlVars, runVars, cropVars, timeVars, editorVars>>

InfoRequest(url) ==
    /\ nreq < MaxRequests
    /\ InfoHandler(url)

\* GET /api/video-info from the end of its await (lines 106-123)
InfoComplete(r, o) ==
    /\ r \in inflight /\ r.op = "info"
    /\ inflight' = inflight \ {r}
    /\ LET res == runCommand(r.cmd.command, o)
           e   == parseMetadata(res.value, now)
       IN  IF res.state = "rejected"
           THEN /\ lastOp' = Op("info", "complete", r.rid, r.url, <<>>, <<>>, FALSE, r.cmd,
                                o, 500, "Failed to fetch info", NoBody)
                /\ UNCHANGED <<videoCache, resolved>>
           ELSE /\ videoCache' = CacheSet(videoCache, r.url, e)
                /\ resolved' = resolved \cup {r.url}
                /\ lastOp' = Op("info", "complete", r.rid, r.url, <<>>, <<>>, FALSE, r.cmd,
                                o, 200, "", InfoBody(e))
    /\ UNCHANGED <<now, files, extracted, nreq, urlVars, runVars, cropVars, timeVars, editorVars>>

\* `hq_${Date.now()}.mp4`
HqName(t) == [kind |-> "hq", t |-> t]

\* POST /api/fetch-segment up to its response or its await (lines 127-160)
FetchHandler(url, startTime, endTime) ==
    /\ nreq' = nreq + 1
    /\ IF CacheMissing(videoCache, url)
       THEN /\ lastOp' = Op("fetch", "request", nreq + 1, url, startTime, endTime, FALSE,
                            NoCmd, NoOutcome, 400, "Session expired. Reload video.", NoBody)
            /\ UNCHANGED inflight
       ELSE LET startSec    == parseTimestamp(startTime)
                endSec      == parseTimestamp(endTime)
                durationSec == NumSub(endSec, startSec)
                args        == fetchArgs(videoCache[url], startSec, durationSec, HqName(now))
            IN  /\ lastOp' = Op("fetch", "request", nreq + 1, url, startTime, endTime, TRUE,
                                args, NoOutcome, 0, "", NoBody)
                /\ inflight' = inflight \cup
                       {[rid |-> nreq + 1, op |-> "fetch", url |-> url,
                         cmd |-> args, filename |-> HqName(now)]}
    /\ UNCHANGED <<now, resolved, videoCache, files, extracted,
                   urlVars, runVars, cropVars, timeVars, editorVars>>

FetchRequest(url, startTime, endTime) ==
    /\ nreq < MaxRequests
    /\ FetchHandler(url, startTime, endTime)

\* the body of a successful /api/fetch-segment response (line 163)
FetchBody(f) ==
    [success  |-> TRUE,
     videoUrl |-> <<"/","d","o","w","n","l","o","a","d","s","/">> \o NameText(f),
     filename |-> NameText(f)]

\* POST /api/fetch-segment from the end of its await (lines 160-167); a
\* transcoder that ran may or may not have written its output file
FetchComplete(r, o, wrote) ==
    /\ r \in inflight /\ r.op = "fetch"
    /\ o.errored => ~wrote
    /\ inflight' = inflight \ {r}
    /\ files' = IF wrote THEN files \cup {r.filename} ELSE files
    /\ LET res == runCommand(r.cmd.command, o)
       IN  IF res.state = "rejected" \/ r.filename \notin files'
           THEN lastOp' = Op("fetch", "complete", r.rid, r.url, <<>>, <<>>, FALSE, r.cmd,
                             o, 500, "Fetch failed", NoBody)
           ELSE lastOp' = Op("fetch", "complete", r.rid, r.url, <<>>, <<>>, FALSE, r.cmd,
                             o, 200, "",
                             FetchBody(r.filename))
    /\ extracted' = IF lastOp'.status = 200 THEN extracted \cup {r.filename} ELSE extracted
    /\ UNCHANGED <<now, resolved, videoCache, nreq, urlVars, runVars, cropVars, timeVars, editorVars>>

\* time passes
Tick ==
    /\ now + TickMs <= MaxTicks * TickMs
    /\ now' = now + TickMs
    /\ UNCHANGED <<resolved, videoCache, inflight, files, extracted, lastOp, nreq,
                   urlVars, runVars, cropVars, timeVars, editorVars>>

Next ==
    \/ \E url \in ServerUrls : InfoRequest(url)
    \/ \E r \in inflight, o \in DownloaderOutcomes : InfoComplete(r, o)
    \/ \E url \in ServerUrls, tr \in TimeRanges : FetchRequest(url, tr[1], tr[2])
    \/ \E r \in inflight, o \in TranscoderOutcomes, wrote \in BOOLEAN :
           FetchComplete(r, o, wrote)
    \/ Tick

Spec == InitServer /\ [][Next]_vars

(***************************************************************************)
(* The clip pipeline: /api/fetch-segment, /api/process-crop, the delivery  *)
(* of the final file and its removal, over the downloads directory.  It    *)
(* starts in the state the server is in after one successful lookup of     *)
(* UrlA.                                                                   *)
(***************************************************************************)
\* requests received in one behaviour of the pipeline, the lookup included
MaxPipeRequests == 3

\* file names sent to /api/process-crop besides the names of stored files:
\* a name with no file, a name that leaves the directory, the empty name
NoSuchName == <<"n","o","f","i","l","e",".","m","p","4">>
ParentName == <<".",".","/","s","e","c","r","e","t",".","m","p","4">>
StrayNames == {NoSuchName, ParentName, <<>>}

\* the aspect ratio and the position sent to /api/process-crop in the pipeline
PipeAspects == {"9:16"}
PipePositions == {JsonNumber(50)}

\* how a run of the transcoder can end in the pipeline
PipeOutcomes ==
    { Outcome(FALSE, 0, <<>>, StderrWarn),
      Outcome(FALSE, 1, <<>>, StderrError),
      Outcome(TRUE, SpawnFailCode, <<>>, <<>>) }

\* what is recorded of a step of /api/process-crop: as Op, with the file
\* name of the request and the path it was resolved to
CropOp(phase, rid, filename, inputPath, launched, cmd, outcome, status, message, body) ==
    [op |-> "crop", phase |-> phase, rid |-> rid, url |-> <<>>,
     startTime |-> <<>>, endTime |-> <<>>,
     launched |-> launched, cmd |-> cmd, outcome |-> outcome,
     status |-> status, message |-> message, body |-> body,
     filename |-> filename, inputPath |-> inputPath]

InitPipe ==
    /\ now = 0
    /\ resolved = {UrlA}
    /\ videoCache = CacheSet(<<>>, UrlA, parseMetadata(StdoutFull, 0))
    /\ inflight = {} /\ files = {} /\ extracted = {}
    /\ lastOp = Op("info", "complete", 1, UrlA, <<>>, <<>>, FALSE, infoArgs(UrlA),
                   Outcome(FALSE, 0, StdoutFull, <<>>), 200, "",
                   InfoBody(parseMetadata(StdoutFull, 0)))
    /\ nreq = 1
    /\ IdleUrl /\ IdleRun /\ IdleCrop /\ IdleTime /\ IdleEditor

PipeFetchRequest(url, startTime, endTime) ==
    /\ nreq < MaxPipeRequests
    /\ FetchHandler(url, startTime, endTime)

\* POST /api/process-crop up to its response or its await (lines 171-216)
CropHandler(filename, aspectRatio, position) ==
    LET inputPath      == pathJoin(DOWNLOADS_DIR, filename)
        outputFilename == FinalName(now)
        processedPath  == DOWNLOADS_DIR \o <<NameText(outputFilename)>>
        args           == cropArgs(inputPath, aspectRatio, position, processedPath)
    IN  /\ nreq' = nreq + 1
        /\ IF ~existsSync(inputPath, files)
           THEN /\ lastOp' = CropOp("request", nreq + 1, filename, inputPath, FALSE, NoCmd,
                                    NoOutcome, 404,
                                    "Source file not found. Try fetching the clip again.",
                                    NoBody)
                /\ UNCHANGED inflight
           ELSE /\ lastOp' = CropOp("request", nreq + 1, filename, inputPath, TRUE, args,
                                    NoOutcome, 0, "", NoBody)
                /\ inflight' = inflight \cup
                       {[rid |-> nreq + 1, op |-> "crop", url |-> <<>>, cmd |-> args,
                         filename |-> outputFilename, source |-> inputPath,
                         request |-> filename]}
        /\ UNCHANGED <<now, resolved, videoCache, files, extracted,
                       urlVars, runVars, cropVars, timeVars, editorVars>>

CropRequest(filename, aspectRatio, position) ==
    /\ nreq < MaxPipeRequests
    /\ CropHandler(filename, aspectRatio, position)

\* POST /api/process-crop from the end of its await (lines 216-227): on
\* success res.download starts and its callback stays pending
CropComplete(r, o, wrote) ==
    /\ r \in inflight /\ r.op = "crop"
    /\ o.errored => ~wrote
    /\ files' = IF wrote THEN files \cup {r.filename} ELSE files
    /\ LET res == runCommand("ffmpeg", o)
       IN  IF res.state = "rejected" \/ r.filename \notin files'
           THEN /\ lastOp' = CropOp("complete", r.rid, r.request, r.source, FALSE, r.cmd,
                                    o, 500, "Processing failed", NoBody)
                /\ inflight' = inflight \ {r}
           ELSE /\ lastOp' = CropOp("complete", r.rid, r.request, r.source, FALSE, r.cmd,
                                    o, 200, "", [download |-> r.filename])
                /\ inflight' = (inflight \ {r}) \cup {[r EXCEPT !.op = "deliver"]}
    /\ UNCHANGED <<now, resolved, videoCache, extracted, nreq,
                   urlVars, runVars, cropVars, timeVars, editorVars>>

\* the callback of res.download (lines 220-222), called when the transfer
\* has ended, completely (ok) or not: it starts fs.unlink(processedPath) and
\* returns without awaiting it, so the file is still there when it returns
DeliveryDone(d, ok) ==
    /\ d \in inflight /\ d.op = "deliver"
    /\ inflight' = (inflight \ {d}) \cup {[d EXCEPT !.op = "unlink"]}
    /\ lastOp' = CropOp("delivered", d.rid, d.request, d.source, FALSE, d.cmd,
                        NoOutcome, 200, "", [download |-> d.filename, sent |-> ok])
    /\ UNCHANGED <<now, resolved, videoCache, files, extracted, nreq,
                   urlVars, runVars, cropVars, timeVars, editorVars>>

\* an unlink that also removes the file the clip was made from
UnlinkDone_DropsSource(u, removed) ==
    /\ u \in inflight /\ u.op = "unlink"
    /\ files' = IF removed
                THEN unlink(files, u.filename)
                         \ {f \in files : DOWNLOADS_DIR \o <<NameText(f)>> = u.source}
                ELSE files
    /\ inflight' = inflight \ {u}
    /\ lastOp' = CropOp("unlinked", u.rid, u.request, u.source, FALSE, u.cmd,
                        NoOutcome, 200, "", [download |-> u.filename, removed |-> removed])
    /\ UNCHANGED <<now, resolved, videoCache, extracted, nreq,
                   urlVars, runVars, cropVars, timeVars, editorVars>>

\* the end of the fs.unlink(processedPath) started by the callback (line
\* 221): the file is removed, or the promise is rejected and the file stays;
\* .catch(() => {}) discards the rejection
UnlinkDone(u, removed) ==
    /\ u \in inflight /\ u.op = "unlink"
    /\ files' = IF removed THEN unlink(files, u.filename) ELSE files
    /\ inflight' = inflight \ {u}
    /\ lastOp' = CropOp("unlinked", u.rid, u.request, u.source, FALSE, u.cmd,
                        NoOutcome, 200, "", [download |-> u.filename, removed |-> removed])
    /\ UNCHANGED <<now, resolved, videoCache, extracted, nreq,
                   urlVars, runVars, cropVars, timeVars, editorVars>>

NextPipe ==
    \/ PipeFetchRequest(UrlA, T10, T25)
    \/ \E r \in inflight, o \in PipeOutcomes, wrote \in BOOLEAN : FetchComplete(r, o, wrote)
    \/ \E filename \in {NameText(f) : f \in files} \cup StrayNames,
          aspectRatio \in PipeAspects, position \in PipePositions :
           CropRequest(filename, aspectRatio, position)
    \/ \E r \in inflight, o \in PipeOutcomes, wrote \in BOOLEAN : CropComplete(r, o, wrote)
    \/ \E d \in inflight, ok \in BOOLEAN : DeliveryDone(d, ok)
    \/ \E u \in inflight, removed \in BOOLEAN : UnlinkDone(u, removed)
    \/ Tick

SpecPipe == InitPipe /\ [][NextPipe]_vars

(***************************************************************************)
(* Cropping again: /api/process-crop called repeatedly with the name of    *)
(* an extracted clip.  It starts in the state the server is in after one   *)
(* lookup of UrlA and one successful /api/fetch-segment, both at time 0.   *)
(***************************************************************************)
\* requests received in one behaviour, the lookup and the extraction included
MaxRecropRequests == 4

RecropAspects == {"16:9", "9:16", "1:1"}
RecropPositions == {JsonNumber(0), JsonNumber(50)}

InitRecrop ==
    /\ now = 0
    /\ resolved = {UrlA}
    /\ videoCache = CacheSet(<<>>, UrlA, parseMetadata(StdoutFull, 0))
    /\ inflight = {}
    /\ files = {HqName(0)} /\ extracted = {HqName(0)}
    /\ lastOp = Op("fetch", "complete", 2, UrlA, <<>>, <<>>, FALSE,
                   fetchArgs(parseMetadata(StdoutFull, 0), parseTimestamp(T10),
                             NumSub(parseTimestamp(T25), parseTimestamp(T10)), HqName(0)),
                   Outcome(FALSE, 0, <<>>, StderrWarn), 200, "",
                   FetchBody(HqName(0)))
    /\ nreq = 2
    /\ IdleUrl /\ IdleRun /\ IdleCrop /\ IdleTime /\ IdleEditor

RecropRequest(filename, aspectRatio, position) ==
    /\ nreq < MaxRecropRequests
    /\ CropHandler(filename, aspectRatio, position)

NextRecrop ==
    \/ \E f \in extracted, aspectRatio \in RecropAspects, position \in RecropPositions :
           RecropRequest(NameText(f), aspectRatio, position)
    \/ \E r \in inflight, o \in PipeOutcomes, wrote \in BOOLEAN : CropComplete(r, o, wrote)
    \/ \E d \in inflight, ok \in BOOLEAN : DeliveryDone(d, ok)
    \/ \E u \in inflight, removed \in BOOLEAN : UnlinkDone(u, removed)
    \/ Tick

SpecRecrop == InitRecrop /\ [][NextRecrop]_vars

(***************************************************************************)
(* parseTimestamp on its own: one call on a value of a request body        *)
(***************************************************************************)
\* the texts between the colons of the inputs
TimeParts == { <<>>, <<"1">>, <<"1","0">>, <<"0","5">>, <<"a">>, <<"b">>, <<"c">>, <<"x">>,
               InfinityText }

\* the seconds the range slider can report, and some longer values
MaxSeconds == 3700
SliderSeconds == (0..MaxSeconds) \cup {7322, 36059, 360000}

\* texts of one, two and three parts, one text of four parts, values that
\* are not strings, and the texts the editor makes from slider values
TimeInputs ==
    {JsonString(a) : a \in TimeParts}
    \cup {JsonString(a \o <<":">> \o b) : a \in TimeParts, b \in TimeParts}
    \cup {JsonString(a \o <<":">> \o b \o <<":">> \o c) :
             a \in TimeParts, b \in TimeParts, c \in TimeParts}
    \cup {JsonString(<<"1",":","2",":","3",":","4">>), JsonNumber(90), JsonUndefined}
    \cup {JsonString(secondsToTime(sec)) : sec \in SliderSeconds}

InitTime ==
    /\ timeArg \in TimeInputs
    /\ timeRes = [kind |-> "none"]
    /\ IdleUrl /\ IdleRun /\ IdleCrop /\ IdleServer /\ IdleEditor

ParseCall ==
    /\ timeRes = [kind |-> "none"]
    /\ timeRes' = parseTimestampCall(timeArg)
    /\ UNCHANGED <<timeArg, urlVars, runVars, cropVars, serverVars, editorVars>>

NextTime == ParseCall

SpecTime == InitTime /\ [][NextTime]_vars

(***************************************************************************)
(* The three routes together over one cache and one downloads directory    *)
(***************************************************************************)
\* requests received in one behaviour of the three routes
MaxFullRequests == 3

FullUrls == {UrlA, UrlB, UrlEvil}

\* how a run of the downloader can end here
FullDownloaderOutcomes ==
    { Outcome(FALSE, 0, StdoutFull, <<>>),
      Outcome(FALSE, 0, StdoutMuxed, StderrWarn),
      Outcome(FALSE, 1, <<>>, StderrError) }

FullInfoRequest(url) ==
    /\ nreq < MaxFullRequests
    /\ InfoHandler(url)

FullFetchRequest(url, startTime, endTime) ==
    /\ nreq < MaxFullRequests
    /\ FetchHandler(url, startTime, endTime)

FullCropRequest(filename, aspectRatio, position) ==
    /\ nreq < MaxFullRequests
    /\ CropHandler(filename, aspectRatio, position)

NextFull ==
    \/ \E url \in FullUrls : FullInfoRequest(url)
    \/ \E r \in inflight, o \in FullDownloaderOutcomes : InfoComplete(r, o)
    \/ \E url \in FullUrls : FullFetchRequest(url, T10, T25)
    \/ \E r \in inflight, o \in PipeOutcomes, wrote \in BOOLEAN : FetchComplete(r, o, wrote)
    \/ \E filename \in {NameText(f) : f \in files}
                          \cup {NameText(f) \o <<"/">> : f \in files},
          aspectRatio \in PipeAspects, position \in PipePositions :
           FullCropRequest(filename, aspectRatio, position)
    \/ \E r \in inflight, o \in PipeOutcomes, wrote \in BOOLEAN : CropComplete(r, o, wrote)
    \/ \E d \in inflight, ok \in BOOLEAN : DeliveryDone(d, ok)
    \/ \E u \in inflight, removed \in BOOLEAN : UnlinkDone(u, removed)
    \/ Tick

SpecFull == InitServer /\ [][NextFull]_vars

(***************************************************************************)
(* The editor component of the client (video-editor.tsx, lines 1-619):     *)
(* its state, the user's actions and the arrival of the responses.         *)
(***************************************************************************)
\* texts typed into the URL field
EditorUrls == {<<>>, UrlA, UrlB, UrlEvil}

\* texts typed into the start and end fields
EditorTimes == {T10}

\* values the range slider reports
EditorSeconds == {0, 10}

\* what the editor shows now
Shown(e) == [url |-> e.url, startTime |-> e.startTime, endTime |-> e.endTime]

\* enabled: shouldFetchInfo && !!url (line 94)
QueryEnabled(e) == e.shouldFetchInfo /\ e.url # <<>>

\* videoInfo: the data stored under the key ["/api/video-info", url] of the
\* URL shown (lines 87-93); infoLoaded is the set of URLs whose key has data
HasVideoInfo(e) == e.url \in e.infoLoaded

\* useQuery after a render (lines 87-102): when the key or enabled has
\* changed from the render before (prev), the query of the URL shown is
\* enabled, its key has no data and no request for that key is in flight,
\* queryFn is called and its request is in flight under that key.  A key
\* that has data keeps it whatever a later refetch of it answers, so no
\* request is recorded for such a key.
useQuery(prev, e) ==
    IF /\ QueryEnabled(e)
       /\ ~(QueryEnabled(prev) /\ prev.url = e.url)
       /\ e.url \notin e.infoLoaded
       /\ e.url \notin e.infoFetching
    THEN [e EXCEPT !.infoFetching = @ \cup {e.url}]
    ELSE e

\* the fields of the other components stay as they are
EditorFrame == UNCHANGED <<urlVars, runVars, cropVars, timeVars, serverVars>>

InitEditor ==
    /\ editor = EditorInitial
    /\ IdleUrl /\ IdleRun /\ IdleCrop /\ IdleTime /\ IdleServer

\* onChange of the URL field (line 320)
setUrl(u) ==
    /\ u # editor.url
    /\ editor' = useQuery(editor, [editor EXCEPT !.url = u])
    /\ EditorFrame

\* handleLoadVideo (lines 198-210)
handleLoadVideo ==
    /\ editor.url # <<>>
    /\ validateYouTubeUrl(editor.url)
    /\ editor' = useQuery(editor, [editor EXCEPT !.shouldFetchInfo = TRUE,
                                                 !.fetchedVideo = NoFetchedVideo])
    /\ editor' # editor
    /\ EditorFrame

\* the request that queryFn started for the URL u settles (lines 95-101):
\* its data is stored under the key of u, whatever URL is shown by now, or
\* the response was not ok, queryFn throws and the key stays without data;
\* the server answers 400 to a URL its allow-list check refuses
\* (routes.ts line 82)
InfoArrives(u, ok) ==
    /\ u \in editor.infoFetching
    /\ ok => validateYouTubeUrl(u)
    /\ editor' = [editor EXCEPT !.infoFetching = @ \ {u},
                                !.infoLoaded = IF ok THEN @ \cup {u} ELSE @]
    /\ EditorFrame

\* handleSliderChange (lines 212-219)
handleSliderChange(start, end) ==
    /\ HasVideoInfo(editor)
    /\ editor' = [editor EXCEPT !.startTime = secondsToTime(start),
                                !.endTime = secondsToTime(end),
                                !.fetchedVideo = NoFetchedVideo]
    /\ editor' # editor
    /\ EditorFrame

\* onChange of the start field (line 410)
setStartTime(t) ==
    /\ HasVideoInfo(editor)
    /\ t # editor.startTime
    /\ editor' = [editor EXCEPT !.startTime = t]
    /\ EditorFrame

\* onChange of the end field (line 420)
setEndTime(t) ==
    /\ HasVideoInfo(editor)
    /\ t # editor.endTime
    /\ editor' = [editor EXCEPT !.endTime = t]
    /\ EditorFrame

\* fetchMutation.mutate() up to its await (lines 105-111); the button is
\* shown without a prepared clip and disabled while the mutation is pending
FetchMutate ==
    /\ HasVideoInfo(editor)
    /\ ~editor.fetchedVideo.present /\ ~editor.pending.present
    /\ editor' = [editor EXCEPT !.fetchedVideo = NoFetchedVideo,
                                !.pending = [present |-> TRUE, from |-> Shown(editor)]]
    /\ EditorFrame

\* the response of /api/fetch-segment arrives: onSuccess (lines 123-124)
\* or onError (lines 125-130)
FetchSettled(ok) ==
    /\ editor.pending.present
    /\ editor' = [editor EXCEPT !.pending = NoFetchedVideo,
                                !.fetchedVideo = IF ok THEN editor.pending ELSE @]
    /\ EditorFrame

\* processMutation.mutate() (lines 141-152): the clip of fetchedVideo is
\* sent to be cropped
ProcessMutate ==
    /\ HasVideoInfo(editor)
    /\ editor.fetchedVideo.present
    /\ editor' = [editor EXCEPT !.lastCrop = editor.fetchedVideo]
    /\ editor' # editor
    /\ EditorFrame

NextEditor ==
    \/ \E u \in EditorUrls : setUrl(u)
    \/ handleLoadVideo
    \/ \E u \in EditorUrls, ok \in BOOLEAN : InfoArrives(u, ok)
    \/ \E start \in EditorSeconds, end \in EditorSeconds : handleSliderChange(start, end)
    \/ \E t \in EditorTimes : setStartTime(t)
    \/ \E t \in EditorTimes : setEndTime(t)
    \/ FetchMutate
    \/ \E ok \in BOOLEAN : FetchSettled(ok)
    \/ ProcessMutate

SpecEditor == InitEditor /\ [][NextEditor]_vars

(***************************************************************************)
(* Claims                                                                  *)
(***************************************************************************)
\* the hosts the documentation lists: the allow-list and the music host
DocumentedHosts ==
    { <<"w","w","w",".","y","o","u","t","u","b","e",".","c","o","m">>,
      <<"y","o","u","t","u","b","e",".","c","o","m">>,
      <<"y","o","u","t","u",".","b","e">>,
      <<"m",".","y","o","u","t","u","b","e",".","c","o","m">>,
      <<"m","u","s","i","c",".","y","o","u","t","u","b","e",".","c","o","m">> }

\* C1: the validator answers true exactly when the text parses as a URL
\* whose lower-cased hostname is one of the documented hosts (web, mobile
\* and music), and false for every other text.
C1_ValidatorMatchesDocumentedHosts ==
    urlRes # "none" =>
        (urlRes = "true" <=>
            /\ ParseURL(urlArg).ok
            /\ toLowerCase(ParseURL(urlArg).hostname) \in DocumentedHosts)

\* C7: once the launched process has closed, runCommand has resolved with
\* the accumulated stdout if and only if the exit code is 0, and has
\* rejected for every other exit code.
C7_ResolvesIffExitZero ==
    (proc.phase = "closed" /\ ~proc.errored) =>
        /\ (settled.state = "resolved" /\ settled.value = procOut) <=> proc.code = 0
        /\ proc.code # 0 => settled.state = "rejected"

\* C9: for a crop to a ratio other than 16:9 and a numeric position p in
\* 0..100, the x offset given to the transcoder is (iw - ow) * p / 100.
C9_OffsetFollowsPosition ==
    (/\ cropCmd.phase = "built"
     /\ cropReq.aspectRatio # "16:9"
     /\ cropReq.position.t = "number"
     /\ cropReq.position.n \in 0..100) =>
        /\ cropCmd.args.filtered
        /\ XOffsetTimes100(cropCmd.args.vf, SourceGeometry.w, SourceGeometry.h)
             = (SourceGeometry.w - EvalWidth(cropCmd.args.vf.w, SourceGeometry.h))
                  * cropReq.position.n

\* the width expression the specification gives for each cropped ratio
ExpectedWidthExpr(aspectRatio) ==
    IF aspectRatio = "9:16" THEN "ih*9/16"
    ELSE IF aspectRatio = "1:1" THEN "ih"
    ELSE "ih*4/5"

\* C10: for 9:16, 1:1 and 4:5 the crop filter has width ih times the target
\* ratio and the full source height; the width expression is never empty.
C10_WidthFromHeightAndRatio ==
    (cropCmd.phase = "built" /\ cropReq.aspectRatio \in {"9:16", "1:1", "4:5"}) =>
        /\ cropCmd.args.filtered
        /\ cropCmd.args.vf.w = ExpectedWidthExpr(cropReq.aspectRatio)
        /\ cropCmd.args.vf.w # ""
        /\ cropCmd.args.vf.h = "ih"

\* a step in which a new request was received, and one in which a handler
\* resumed after its subprocess
RequestStep == nreq' = nreq + 1
CompleteStep == nreq' = nreq /\ inflight' # inflight

\* the URLs offered to the server that the allow-list check accepts
AcceptedUrls == {u \in ServerUrls : validateYouTubeUrl(u)}

\* C2: a request for a URL that fails the allow-list check is refused by
\* /api/video-info and by /api/fetch-segment without a subprocess, whatever
\* the cache holds; no suspended handler ever runs for such a URL.
C2_RejectedUrlLaunchesNothing ==
    /\ (lastOp.phase = "request" /\ lastOp.url \notin AcceptedUrls) =>
           (~lastOp.launched /\ lastOp.status = 400)
    /\ \A r \in inflight : r.url \in AcceptedUrls

\* C2 witness: /api/fetch-segment has refused a rejected URL while the cache
\* held an entry
C2_Witness ==
    /\ lastOp.op = "fetch" /\ lastOp.phase = "request"
    /\ lastOp.url = UrlEvil /\ lastOp.status = 400 /\ ~lastOp.launched
    /\ DOMAIN videoCache # {}

\* C3: /api/fetch-segment launches the transcoder only when the entry of the
\* URL is fresh (now - timestamp < 30 minutes); otherwise it answers with
\* the session-expired error.
C3_FetchRequiresFreshEntry ==
    [][(RequestStep /\ lastOp'.op = "fetch") =>
          LET fresh == /\ lastOp'.url \in DOMAIN videoCache
                       /\ now - videoCache[lastOp'.url].timestamp < FreshnessWindow
          IN  /\ lastOp'.launched <=> fresh
              /\ ~fresh => (lastOp'.status = 400
                            /\ lastOp'.message = "Session expired. Reload video.")]_vars

\* C4: /api/video-info for a URL whose entry is younger than 30 minutes
\* answers with the entry's title, thumbnail, duration and channel and
\* launches nothing; once 30 minutes have passed it launches the downloader
\* again, and a completed lookup stores an entry stamped with the current time.
C4_FreshHitStaleMiss ==
    [][/\ (RequestStep /\ lastOp'.op = "info" /\ lastOp'.url \in DOMAIN videoCache) =>
            IF now - videoCache[lastOp'.url].timestamp < FreshnessWindow
            THEN /\ ~lastOp'.launched /\ inflight' = inflight
                 /\ lastOp'.status = 200
                 /\ lastOp'.body = InfoBody(videoCache[lastOp'.url])
            ELSE /\ lastOp'.launched /\ lastOp'.cmd.command = "yt-dlp"
                 /\ \E r \in inflight' \ inflight : r.op = "info" /\ r.url = lastOp'.url
       /\ (CompleteStep /\ lastOp'.op = "info" /\ lastOp'.status = 200) =>
            /\ lastOp'.url \in DOMAIN videoCache'
            /\ videoCache'[lastOp'.url].timestamp = now
            /\ lastOp'.body = InfoBody(videoCache'[lastOp'.url])]_vars

\* C4 witness: a second lookup completed for a URL after its first entry had
\* expired, and overwrote the entry
C4_Witness ==
    /\ lastOp.op = "info" /\ lastOp.phase = "complete" /\ lastOp.status = 200
    /\ lastOp.rid = 2 /\ lastOp.url = UrlA
    /\ videoCache[UrlA].timestamp >= FreshnessWindow

\* C5: /api/fetch-segment for a URL that no /api/video-info has resolved yet
\* answers session-expired and launches nothing; once the URL has been
\* resolved it passes the session check and launches the transcoder.
C5_FetchAfterResolve ==
    [][(RequestStep /\ lastOp'.op = "fetch") =>
          IF lastOp'.url \in resolved
          THEN /\ lastOp'.launched /\ lastOp'.cmd.command = "ffmpeg"
               /\ \E r \in inflight' \ inflight : r.op = "fetch" /\ r.url = lastOp'.url
          ELSE /\ ~lastOp'.launched /\ inflight' = inflight
               /\ lastOp'.status = 400
               /\ lastOp'.message = "Session expired. Reload video."]_vars

\* C5 witness: the transcoder was launched for a resolved URL
C5_Witness ==
    /\ lastOp.op = "fetch" /\ lastOp.phase = "request" /\ lastOp.launched
    /\ lastOp.url \in resolved

\* the downloader's output has a metadata line of four fields and a stream
\* locator on the next line
CompleteMetadata(stdout) ==
    LET lines == split(stdout, <<"\n">>)
    IN  /\ Len(lines) >= 2
        /\ Len(split(lines[1], <<"|","|","|">>)) = 4
        /\ lines[2] # <<>>

\* C6: when the downloader fails to launch, exits non-zero, or prints no
\* complete metadata, /api/video-info answers with an error and leaves the
\* cache as it was.
C6_NoPartialCaching ==
    [][(/\ CompleteStep /\ lastOp'.op = "info"
        /\ \/ lastOp'.outcome.errored
           \/ lastOp'.outcome.code # 0
           \/ ~CompleteMetadata(lastOp'.outcome.stdout)) =>
          (lastOp'.status = 500 /\ videoCache' = videoCache)]_vars

\* C8: /api/fetch-segment launches the transcoder only for 0 <= start < end
\* and end <= the cached duration; any other range is answered with an
\* error and launches nothing.
C8_RangeValidated ==
    [][(RequestStep /\ lastOp'.op = "fetch" /\ lastOp'.url \in DOMAIN videoCache) =>
          LET start == parseTimestamp(lastOp'.startTime)
              end   == parseTimestamp(lastOp'.endTime)
              dur   == videoCache[lastOp'.url].duration
              valid == /\ ~start.nan /\ ~end.nan
                       /\ start.inf = 0 /\ end.inf = 0
                       /\ 0 <= start.v /\ start.v < end.v
                       /\ dur.inf = 1 \/ (dur.inf = 0 /\ end.v <= dur.v)
          IN  /\ lastOp'.launched => valid
              /\ ~valid => (lastOp'.status >= 400 /\ ~lastOp'.launched)]_vars

\* option a followed by value b in an argument list
HasOption(args, a, b) == \E i \in 1..(Len(args) - 1) : args[i] = a /\ args[i + 1] = b

\* C11: the crop step stream-copies (no filter, no video encoder) exactly
\* when the target ratio is 16:9; for every other ratio it applies the crop
\* filter, encodes the video with libx264 and copies the audio.
C11_CopyExactlyForSixteenNine ==
    cropCmd.phase = "built" =>
        IF cropReq.aspectRatio = "16:9"
        THEN /\ ~cropCmd.args.filtered
             /\ cropCmd.args.codec = <<"-c", "copy">>
        ELSE /\ cropCmd.args.filtered
             /\ cropCmd.args.vf.h = "ih"
             /\ HasOption(cropCmd.args.codec, "-c:v", "libx264")
             /\ HasOption(cropCmd.args.codec, "-c:a", "copy")
             /\ ~HasOption(cropCmd.args.codec, "-c", "copy")

\* C11 witness: a 1:1 crop at position 50 was built with a filter
C11_Witness ==
    /\ cropCmd.phase = "built" /\ cropReq.aspectRatio = "1:1"
    /\ cropReq.position = JsonNumber(50)
    /\ cropCmd.args.filtered /\ cropCmd.args.vf.xPercent = 50


\* path lies in directory dir or below it
Under(dir, path) == Len(path) >= Len(dir) /\ SubSeq(path, 1, Len(dir)) = dir

\* the stored file a path names, as a set of at most one file
FileAt(path, fs) == {f \in fs : DOWNLOADS_DIR \o <<NameText(f)>> = path}

\* C12: for every file name sent to /api/process-crop, the path that is
\* tested for existence and handed to the transcoder lies under the
\* downloads directory.
C12_InputPathUnderDownloads ==
    lastOp.op = "crop" => Under(DOWNLOADS_DIR, lastOp.inputPath)

\* C13: /api/process-crop with a file name that names no file of the
\* downloads directory answers 404 "Source file not found" and launches
\* nothing.
C13_MissingSourceRejected ==
    (/\ lastOp.op = "crop" /\ lastOp.phase = "request"
     /\ lastOp.filename \notin {NameText(f) : f \in files}) =>
        (/\ lastOp.status = 404
         /\ lastOp.message = "Source file not found. Try fetching the clip again."
         /\ ~lastOp.launched)

\* C14: a final clip handed to res.download is deleted once the delivery
\* has ended, whether or not it succeeded: when the removal started by the
\* callback has ended, the file is not in the downloads directory.
C14_DeliveredClipDeleted ==
    (lastOp.op = "crop" /\ lastOp.phase = "unlinked") =>
        lastOp.body.download \notin files

\* C15: when /api/fetch-segment or /api/process-crop answers with a
\* failure, the output file of that request is not in the downloads
\* directory.
C15_FailureLeavesNoFile ==
    [][\A r \in inflight :
          (CompleteStep /\ r \notin inflight' /\ lastOp'.rid = r.rid /\ lastOp'.status = 500)
              => r.filename \notin files']_vars

\* C16: once the final clip made from an intermediate clip has been
\* delivered, or the crop of it has failed, the intermediate clip is not in
\* the downloads directory.
C16_IntermediateDeleted ==
    (/\ lastOp.op = "crop"
     /\ \/ lastOp.phase = "delivered"
        \/ lastOp.phase = "complete" /\ lastOp.status = 500) =>
        FileAt(lastOp.inputPath, files) = {}

\* C17: after a successful extraction, every /api/process-crop request that
\* names the extracted clip finds it and launches the transcoder on it,
\* whatever crops of it have been made before, without a new extraction.
C17_RecropAccepted ==
    [][(/\ RequestStep /\ lastOp'.op = "crop"
        /\ lastOp'.filename \in {NameText(f) : f \in extracted}) =>
          (/\ lastOp'.launched
           /\ lastOp'.cmd.i = DOWNLOADS_DIR \o <<lastOp'.filename>>
           /\ extracted' = extracted)]_vars

\* a second crop of a clip, with another ratio, is launched after a first
\* crop of it has completed and is being delivered
C17_Witness ==
    /\ lastOp.op = "crop" /\ lastOp.phase = "request" /\ lastOp.launched
    /\ \E d \in inflight :
          /\ d.op = "deliver" /\ d.source = lastOp.inputPath
          /\ d.cmd.filtered # lastOp.cmd.filtered

\* C18: requests in flight at the same time have distinct output file
\* names.
C18_DistinctOutputNames ==
    \A r1, r2 \in {r \in inflight : r.op # "unlink"} :
        r1.rid # r2.rid => r1.filename # r2.filename


\* C19: a launched /api/fetch-segment passes, before every input (the video
\* and, when it is separate, the audio), -ss parse(startTime) and
\* -t parse(endTime) - parse(startTime); for 00:00:10 to 00:00:25 that is
\* -ss 10 -t 15.
C19_SeekAndDurationOnEveryInput ==
    [][(RequestStep /\ lastOp'.op = "fetch" /\ lastOp'.launched) =>
          LET startSec == parseTimestamp(lastOp'.startTime)
              endSec   == parseTimestamp(lastOp'.endTime)
              cached   == videoCache[lastOp'.url]
              inputs   == lastOp'.cmd.inputs
          IN  /\ Len(inputs) = IF cached.videoUrl # cached.audioUrl THEN 2 ELSE 1
              /\ inputs[1].i = cached.videoUrl
              /\ Len(inputs) = 2 => inputs[2].i = cached.audioUrl
              /\ \A n \in 1..Len(inputs) :
                    /\ inputs[n].ss = NumText(startSec)
                    /\ inputs[n].t = NumText(NumSub(endSec, startSec))
                    /\ (lastOp'.startTime = T10 /\ lastOp'.endTime = T25) =>
                          (inputs[n].ss = <<"1","0">> /\ inputs[n].t = <<"1","5">>)]_vars

\* 00:00:10 to 00:00:25 of a video with separate audio has been launched
C19_Witness ==
    /\ lastOp.op = "fetch" /\ lastOp.phase = "request" /\ lastOp.launched
    /\ lastOp.startTime = T10 /\ lastOp.endTime = T25
    /\ Len(lastOp.cmd.inputs) = 2


\* a text of one to three parts, each of them a run of decimal digits
WellFormedTime(x) ==
    /\ x.t = "string"
    /\ LET parts == split(x.s, <<":">>)
       IN  /\ Len(parts) <= 3
           /\ \A n \in 1..Len(parts) :
                 parts[n] # <<>> /\ \A k \in 1..Len(parts[n]) : IsDigit(parts[n][k])

\* C20: parseTimestamp returns 0, and neither throws nor returns a value
\* that is not a number, for every input that is not a well-formed time:
\* a text with a part that is empty or not numeric, or a value that is not
\* a string.
C20_MalformedYieldsZero ==
    (timeRes.kind # "none" /\ ~WellFormedTime(timeArg)) =>
        timeRes = [kind |-> "number", v |-> Num(0)]


\* the number a run of decimal digits denotes
PartValue(part) == DigitsVal(part)

\* C21: for a well-formed text, parseTimestamp gives h*3600 + m*60 + s for
\* three parts, m*60 + s for two parts and s for one part.
C21_PositionalCombination ==
    (timeRes.kind # "none" /\ WellFormedTime(timeArg)) =>
        LET parts == split(timeArg.s, <<":">>)
            expected ==
                IF Len(parts) = 3
                THEN PartValue(parts[1]) * 3600 + PartValue(parts[2]) * 60 + PartValue(parts[3])
                ELSE IF Len(parts) = 2
                THEN PartValue(parts[1]) * 60 + PartValue(parts[2])
                ELSE PartValue(parts[1])
        IN  timeRes = [kind |-> "number", v |-> Num(expected)]

\* 10:05 has been parsed to 605
C21_Witness ==
    /\ timeArg = JsonString(<<"1","0",":","0","5">>)
    /\ timeRes = [kind |-> "number", v |-> Num(605)]

\* C22: parseTimestamp(secondsToTime(s)) = s for every non-negative integer
\* s, secondsToTime being the zero-padded H:MM:SS text of s.
C22_RoundTrip ==
    \A sec \in SliderSeconds :
        (timeArg = JsonString(secondsToTime(sec)) /\ timeRes.kind # "none") =>
            timeRes = [kind |-> "number", v |-> Num(sec)]

\* 02:02:02 has been parsed back to 7322
C22_Witness ==
    /\ timeArg = JsonString(<<"0","2",":","0","2",":","0","2">>)
    /\ timeArg = JsonString(secondsToTime(7322))
    /\ timeRes = [kind |-> "number", v |-> Num(7322)]


\* the stream locators held in a cache
Locators(cache) ==
    UNION {{cache[u].videoUrl, cache[u].audioUrl} : u \in DOMAIN cache} \ {<<>>}

\* the texts of a response body
BodyTexts(body) ==
    {body[k] : k \in {k \in DOMAIN body : k \in {"title", "thumbnail", "channel",
                                                   "videoUrl", "audioUrl", "filename"}}}

\* C23: no response of /api/video-info or /api/fetch-segment carries a
\* stream locator: a successful /api/video-info answers title, thumbnail,
\* duration and channel only, a successful /api/fetch-segment answers the
\* local file, and every other response is one of the fixed messages.
C23_NoLocatorInResponse ==
    (lastOp.op \in {"info", "fetch"} /\ lastOp.status # 0) =>
        /\ lastOp.status = 200 =>
              /\ lastOp.op = "info" =>
                    DOMAIN lastOp.body = {"title", "thumbnail", "duration", "channel"}
              /\ lastOp.op = "fetch" =>
                    DOMAIN lastOp.body = {"success", "videoUrl", "filename"}
              /\ BodyTexts(lastOp.body) \cap Locators(videoCache) = {}
              /\ lastOp.message = ""
        /\ lastOp.status # 200 =>
              /\ lastOp.body = NoBody
              /\ lastOp.message \in {"Invalid URL", "Failed to fetch info",
                                     "Session expired. Reload video.", "Fetch failed"}

\* a lookup has been answered from an entry that holds both locators
C23_Witness ==
    /\ lastOp.op = "info" /\ lastOp.phase = "request" /\ lastOp.status = 200
    /\ videoCache[lastOp.url].videoUrl # <<>>
    /\ videoCache[lastOp.url].audioUrl # videoCache[lastOp.url].videoUrl


\* the aspect ratios of the contract
SupportedAspects == {"9:16", "1:1", "16:9", "4:5"}

\* C24: /api/process-crop builds transcoder arguments only for a request
\* whose aspect ratio is one of 9:16, 1:1, 16:9, 4:5 and whose position is
\* a number in 0..100; any other request is rejected before that.
C24_CropInputsValidated ==
    cropCmd.phase = "built" =>
        /\ cropReq.aspectRatio \in SupportedAspects
        /\ cropReq.position.t = "number"
        /\ cropReq.position.n \in 0..100


\* C25: the cache changes only when a lookup completes with success, and
\* then only by setting the entry of the URL of that lookup, whole, from
\* that run of the downloader; /api/fetch-segment, /api/process-crop and
\* the delivery leave it unchanged, and no entry is removed or changed for
\* another URL.
C25_CacheFrame ==
    [][\/ videoCache' = videoCache
       \/ /\ lastOp'.op = "info" /\ lastOp'.phase = "complete" /\ lastOp'.status = 200
          /\ DOMAIN videoCache' = DOMAIN videoCache \cup {lastOp'.url}
          /\ \A u \in DOMAIN videoCache \ {lastOp'.url} : videoCache'[u] = videoCache[u]
          /\ videoCache'[lastOp'.url] = parseMetadata(lastOp'.outcome.stdout, now)]_vars

\* a lookup has stored an entry next to the older entry of another URL
C25_Witness ==
    /\ lastOp.op = "info" /\ lastOp.phase = "complete" /\ lastOp.status = 200
    /\ Cardinality(DOMAIN videoCache) = 2
    /\ videoCache[lastOp.url].timestamp = now
    /\ \E u \in DOMAIN videoCache : videoCache[u].timestamp < now


\* C26: under every interleaving of lookups and extractions of one URL, an
\* entry is stored whole from one run of the downloader (descriptive
\* fields, both locators and the time stamp), and a request that reads the
\* cache takes everything it uses from the one entry stored at that moment.
C26_NoTornEntry ==
    [][/\ (CompleteStep /\ lastOp'.op = "info" /\ lastOp'.phase = "complete"
           /\ lastOp'.status = 200) =>
              /\ videoCache'[lastOp'.url].timestamp = now
              /\ videoCache'[lastOp'.url] = parseMetadata(lastOp'.outcome.stdout, now)
       /\ (RequestStep /\ lastOp'.op = "fetch" /\ lastOp'.launched) =>
              LET e      == videoCache[lastOp'.url]
                  inputs == lastOp'.cmd.inputs
              IN  /\ inputs[1].i = e.videoUrl
                  /\ inputs[Len(inputs)].i = e.audioUrl
       /\ (RequestStep /\ lastOp'.op = "info" /\ lastOp'.phase = "request"
           /\ lastOp'.status = 200) =>
              LET e == videoCache[lastOp'.url]
              IN  /\ lastOp'.body.title = e.title /\ lastOp'.body.thumbnail = e.thumbnail
                  /\ lastOp'.body.duration = e.duration /\ lastOp'.body.channel = e.channel]_vars

\* an extraction has read the entry of a URL while a lookup of the same URL
\* is in flight
C26_Witness ==
    /\ lastOp.op = "fetch" /\ lastOp.phase = "request" /\ lastOp.launched
    /\ \E r \in inflight : r.op = "info" /\ r.url = lastOp.url


\* C27: every key of the cache is a URL the allow-list check accepts, so a
\* transcoder launched by /api/fetch-segment is launched for such a URL.
C27_CacheKeysValidated ==
    /\ DOMAIN videoCache \subseteq AcceptedUrls
    /\ (lastOp.op = "fetch" /\ lastOp.launched) =>
           (lastOp.url \in DOMAIN videoCache /\ lastOp.url \in AcceptedUrls)

\* the transcoder has been launched for a URL whose host is accepted after
\* lower-casing
C27_Witness ==
    /\ lastOp.op = "fetch" /\ lastOp.launched
    /\ lastOp.url = UrlB /\ UrlB \in DOMAIN videoCache

\* C28: every entry of the cache has a non-empty video locator and a
\* non-empty audio locator, and every input of a transcoder launched by
\* /api/fetch-segment is non-empty.
C28_LocatorsNonEmpty ==
    /\ \A u \in DOMAIN videoCache :
          videoCache[u].videoUrl # <<>> /\ videoCache[u].audioUrl # <<>>
    /\ (lastOp.op = "fetch" /\ lastOp.launched) =>
           \A n \in 1..Len(lastOp.cmd.inputs) : lastOp.cmd.inputs[n].i # <<>>


\* C29: a runCommand promise settles once (it is settled when the process
\* has closed, and a settled promise never changes); when the process could
\* not be launched it is rejected with the launch error, also after the
\* close event that follows, and a rejection for a non-zero exit carries
\* the stderr text, which differs from the launch error.
C29_SettlesOnceLaunchFailureKept ==
    [][/\ settled.state # "pending" => settled' = settled
       /\ proc'.phase = "closed" => settled'.state # "pending"
       /\ proc'.errored =>
             settled' = [state |-> "rejected",
                         value |-> LaunchErrorMessage(proc.command, proc'.code)]
       /\ (settled'.state = "rejected" /\ ~proc'.errored) =>
             /\ settled'.value = procErr'
             /\ \A c \in RunCommands, code \in {SpawnFailCode, SpawnDeniedCode} :
                    settled'.value # LaunchErrorMessage(c, code)]_vars

\* the close event has followed a launch failure and the rejection stands
C29_Witness ==
    /\ proc.phase = "closed" /\ proc.errored /\ proc.code = SpawnFailCode
    /\ settled = [state |-> "rejected",
                  value |-> LaunchErrorMessage(proc.command, SpawnFailCode)]


\* C30: whenever the editor holds a prepared clip, the clip was extracted
\* from the URL, start time and end time the editor shows, so the clip sent
\* to be cropped is the one of the range displayed.
C30_PreparedClipMatchesShown ==
    [][/\ editor'.fetchedVideo.present => editor'.fetchedVideo.from = Shown(editor')
       /\ editor'.lastCrop # editor.lastCrop => editor'.lastCrop.from = Shown(editor)]_vars

====
